---- MODULE Spec2Model ----
(***************************************************************************)
(* Model of the STM32F0 firmware: the SysTick millisecond counter and      *)
(* delay_ms (system.c), set_led_brightness (pwm.c), get_temperature        *)
(* (adc.c), the USART2 receive/transmit registers (uart.c) and the command *)
(* interpreter loop of main (main.c).                                      *)
(*                                                                         *)
(* 32-bit unsigned values are pairs <<hi, lo>> of 16-bit halves, so that   *)
(* the arithmetic modulo 2^32 of the target is kept exactly.               *)
(***************************************************************************)
EXTENDS Integers, Sequences, FiniteSets, TLC

VARIABLES
    msTicks,              \* system.c: volatile uint32_t msTicks
    pc,                   \* position of the main thread
    ret,                  \* where delay_ms returns to
    ms,                   \* delay_ms: parameter ms
    start_ticks,          \* delay_ms: local start_ticks
    temp_reading_active,  \* main: uint8_t temp_reading_active
    c,                    \* main: char c of the digit-collection loop
    brightness_str,       \* main: digits stored in brightness_str[0..idx-1]
    idx,                  \* main: int idx
    start_time,           \* main: uint32_t start_time
    arg,                  \* set_led_brightness: parameter brightness (uint8_t)
    TIM2_PSC, TIM2_ARR, TIM2_CCR1,       \* timer 2 registers
    RXNE, USART_RDR, TXE, USART_TDR,     \* USART2: ISR bits 5 and 7, data registers
    ADC_DR, TEMP30_CAL,   \* converter data register, factory calibration value
    temperature,          \* main: int32_t temperature
    events,               \* what the latest step of the main thread did to the outside:
                          \* lines sent, bytes echoed, calls of set_led_brightness
    nTicks, t0,           \* SysTick_Handler invocations so far, counter at start
    spare,                \* ticks that no timed wait was waiting for
    bytesLeft,            \* bytes the serial line may still deliver
    nReports,             \* Temp lines sent
    toggleParity,         \* number of 'T'/'t' commands dispatched so far, modulo 2
    nConsumed,            \* bytes consumed by the digit-collection loop of this session
    lastTemp,             \* msTicks when the latest Temp line was sent
    \* configuration registers, each the set of the numbers of its bits that are 1
    RCC_CR, RCC_CFGR, RCC_AHBENR, RCC_APB1ENR, RCC_APB2ENR,
    SYST_CSR, ADC_CR, ADC_CFGR1, ADC_CHSELR, ADC_CCR, ADC_SMPR,
    GPIOA_MODER, GPIOA_AFRL, USART_CR1, USART_CR2,
    TIM2_CR1, TIM2_CCMR1, TIM2_CCER,
    SYST_RVR, SYST_CVR, USART_BRR,       \* configuration registers that hold a number
    plan,                 \* the calls main has still to make before its loop
    snapshot,             \* the registers as the first of two equal calls left them
    bannerLines,          \* lines sent by main before its loop (main.c:49-51)
    result,               \* value returned by the latest uart.c call
    str, si, sent         \* uart_send_string: memory at str, index i, bytes written
                          \* to USART_TDR by the call

vars == <<msTicks, pc, ret, ms, start_ticks, temp_reading_active,
          c, brightness_str, idx, start_time, arg, TIM2_PSC, TIM2_ARR, TIM2_CCR1,
          RXNE, USART_RDR, TXE, USART_TDR, ADC_DR, TEMP30_CAL, temperature,
          events, nTicks, t0, spare, bytesLeft, nReports, toggleParity,
          nConsumed, lastTemp,
          RCC_CR, RCC_CFGR, RCC_AHBENR, RCC_APB1ENR, RCC_APB2ENR,
          SYST_CSR, ADC_CR, ADC_CFGR1, ADC_CHSELR, ADC_CCR, ADC_SMPR,
          GPIOA_MODER, GPIOA_AFRL, USART_CR1, USART_CR2,
          TIM2_CR1, TIM2_CCMR1, TIM2_CCER, SYST_RVR, SYST_CVR, USART_BRR,
          plan, snapshot, bannerLines, result, str, si, sent>>

----------------------------------------------------------------------------
(* Bounds of the model *)

MaxBytes == 3          \* bytes the serial line delivers in one run
MaxSpare == 1          \* ticks that may fire while no timed wait needs them
MaxReports == 1        \* Temp lines whose 1000 ms delay is allowed to elapse
ArrivalWindow == 1     \* a byte reaches the polling digit-collection loop within
                       \* this many ticks of the start or of the end of its window
MaxStr == 3            \* characters in the memory that uart_send_string reads,
                       \* before the NUL that ends it

----------------------------------------------------------------------------
(* 32-bit unsigned arithmetic on <<hi, lo>> *)

W16 == 65536

U32(hi, lo) == <<hi, lo>>

Zero32 == <<0, 0>>

\* a counter that is only 16 bits wide
Inc32NoCarry(x) == <<x[1], (x[2] + 1) % W16>>

Inc32(x) == IF x[2] = W16 - 1 THEN <<(x[1] + 1) % W16, 0>> ELSE <<x[1], x[2] + 1>>

Sub32(a, b) ==
    LET lo == a[2] - b[2]
        borrow == IF lo < 0 THEN 1 ELSE 0
    IN  <<(a[1] - b[1] - borrow + W16) % W16, (lo + W16) % W16>>

\* a < n for a constant 0 <= n < 2^16 (unsigned comparison)
LtSmall(a, n) == a[1] = 0 /\ a[2] < n

\* x + n mod 2^32 for 0 <= n < 2^16
AddSmall(x, n) ==
    LET lo == x[2] + n
    IN  <<(x[1] + lo \div W16) % W16, lo % W16>>

\* a * k mod 2^32 for 0 <= k < 2^15
Mul32(a, k) ==
    LET lo == a[2] * k
    IN  <<(a[1] * k + lo \div W16) % W16, lo % W16>>

\* unsigned a / d for 0 < d < 2^15
Div32(a, d) ==
    LET r1 == a[1] % d
    IN  <<a[1] \div d, (r1 * W16 + a[2]) \div d>>

\* conversion of a 32-bit unsigned value to int32_t (two's complement)
ToInt32(x) == IF x[1] >= 32768 THEN (x[1] - W16) * W16 + x[2] ELSE x[1] * W16 + x[2]

----------------------------------------------------------------------------
(* Program constants *)

CH_T == 84             \* 'T'
CH_t == 116            \* 't'
CH_L == 76             \* 'L'
CH_l == 108            \* 'l'
CH_0 == 48             \* '0'
CH_9 == 57             \* '9'
CH_LF == 10            \* '\n', the last character of every line sent
COLLECT_TIMEOUT == 5000
MAX_DIGITS == 2
POST_DIGIT_DELAY == 5
REPORT_DELAY == 1000
MAX_BRIGHTNESS == 99
PWM_PSC == 799
PWM_ARR == 99
VDD_CALIB == 3300
VDD_APPLI == 3300
AVG_SLOPE == 5336
TEMP_OFFSET == 30
BUFFER_SIZE == 32          \* main: char buffer[32]
BOOT_DELAY == 50           \* main: delay_ms(50)
ADC_STABLE_DELAY == 100    \* adc_conf: delay_ms(100)
ADC_START_DELAY == 20      \* adc_conf: delay_ms(20)
SYST_RELOAD == 7999        \* systick_init: 8000 - 1
BAUD_9600 == 833           \* uart_conf: 0x341

\* bit numbers (nucleo_conf.h, uart.c)
SYST_CSR_ENABLE == 0
SYST_CSR_TICKINT == 1
SYST_CSR_CLKSOURCE == 2
RCC_CR_HSION == 0
RCC_CR_HSIRDY == 1
ADC_CR_ADEN == 0
ADC_CR_ADDIS == 1
ADC_CR_ADSTART == 2
ADC_CR_ADCAL == 31
ADC_CFGR1_CONT == 13
USART_CR1_UE == 0
USART_CR1_RE == 2
USART_CR1_TE == 3
USART_CR1_PCE == 10
USART_CR1_M0 == 12
USART_CR1_OVER8 == 15
USART_CR1_M1 == 28

\* the bits of value << shift, for a value below 16
Shl(value, shift) == {b + shift : b \in {k \in 0 .. 3 : (value \div (2 ^ k)) % 2 = 1}}

\* reg ^= bits
ToggleBits(reg, bits) == (reg \ bits) \cup (bits \ reg)

\* reg |= bits
SetBits(reg, bits) == reg \cup bits

\* reg &= ~bits
ClearBits(reg, bits) == reg \ bits

RCC_CFGR_SW == Shl(3, 0)
RCC_CFGR_SW_HSI == Shl(0, 0)
RCC_CFGR_SWS == Shl(3, 2)
RCC_CFGR_SWS_HSI == Shl(0, 2)

----------------------------------------------------------------------------
(* Inputs of the model *)

\* bytes the serial line can deliver: the four command letters, the digits
\* '0' and '9', and ':', the non-digit that follows '9'
Alphabet == {CH_T, CH_t, CH_L, CH_l, CH_0, CH_9, 58}

RawSet == {1800}             \* samples read from ADC_DR in the main loop
CalSet == {1750}                \* factory calibration value in the main loop

----------------------------------------------------------------------------
(* pwm.c *)

\* set_led_brightness: the value written to TIM2_CCR1
\* the clamp compares with 100
set_led_brightness_100(brightness) ==
    IF brightness > MAX_BRIGHTNESS + 1 THEN MAX_BRIGHTNESS ELSE brightness

\* the clamp saturates at the full period, 100
set_led_brightness_full(brightness) ==
    IF brightness >= MAX_BRIGHTNESS THEN MAX_BRIGHTNESS + 1 ELSE brightness

set_led_brightness(brightness) ==
    IF brightness > MAX_BRIGHTNESS THEN MAX_BRIGHTNESS ELSE brightness

(* adc.c *)

\* get_temperature: every operand is converted to uint32_t (VDD_APPLI,
\* VDD_CALIB and AVG_SLOPE are uint32_t), so the expression is evaluated
\* modulo 2^32 with unsigned division, and the result converted to int32_t
get_temperature(adc_value, cal30) ==
    ToInt32(AddSmall(
        Div32(Mul32(Sub32(Div32(Mul32(U32(0, adc_value), VDD_APPLI), VDD_CALIB),
                          U32(0, cal30)),
                    1000),
              AVG_SLOPE),
        TEMP_OFFSET))

(* main.c *)

\* c >= '0' && c <= '9'
IsDigit(ch) == ch >= CH_0 /\ ch <= CH_9

\* received_char == 'T' || 't': the second operand is never 0
IsToggleCmdAlways(ch) == ch = CH_T \/ CH_t # 0

IsToggleCmd(ch) == ch = CH_T \/ ch = CH_t

IsLedCmd(ch) == ch = CH_L \/ ch = CH_l

\* temp_reading_active = !temp_reading_active
Toggle(flag) == IF flag = 0 THEN 1 ELSE 0

\* idx >= 0 in place of idx > 0
HasDigitsAlways(i) == i >= 0

\* idx > 0: at least one digit was stored
HasDigits(i) == i > 0

\* a loop that forgets the two-digit limit
CollectCondTimeOnly(i, now, start) == LtSmall(Sub32(now, start), COLLECT_TIMEOUT)

\* msTicks < start_time + 5000: a deadline, wrong when it wraps
CollectCondDeadline(i, now, start) ==
    LET deadline == AddSmall(start, COLLECT_TIMEOUT)
    IN  /\ i < MAX_DIGITS
        /\ (now[1] < deadline[1] \/ (now[1] = deadline[1] /\ now[2] < deadline[2]))

\* the condition of the digit-collection loop
CollectCond(i, now, start) == i < MAX_DIGITS /\ LtSmall(Sub32(now, start), COLLECT_TIMEOUT)

\* msTicks < start_ticks + ms: a deadline, wrong when it wraps
DelayCondDeadline(now, start, n) ==
    LET deadline == AddSmall(start, n)
    IN  now[1] < deadline[1] \/ (now[1] = deadline[1] /\ now[2] < deadline[2])

\* a delay that is a quarter of what was asked
DelayCondShort(now, start, n) == LtSmall(Sub32(now, start), n \div 4)

\* the condition of the delay_ms loop
DelayCond(now, start, n) == LtSmall(Sub32(now, start), n)

\* the conversion loop: uint8_t brightness = brightness * 10 + (str[i] - '0')
\* the accumulator is not multiplied by 10
ParseStepNoScale(brightness, ch) == (brightness + (ch - CH_0)) % 256

ParseStep(brightness, ch) == (brightness * 10 + (ch - CH_0)) % 256

RECURSIVE ParseDigits(_, _)
ParseDigits(digits, i) ==
    IF i = 0 THEN 0
    ELSE ParseStep(ParseDigits(digits, i - 1), digits[i])

\* sprintf "%d" of a non-negative value: its decimal digits as characters
RECURSIVE DecDigits(_)
DecDigits(n) ==
    IF n < 10 THEN <<CH_0 + n>>
    ELSE Append(DecDigits(n \div 10), CH_0 + (n % 10))

\* the number in a field 20 characters wider, filled with spaces
FormatIntWide(n) ==
    IF n < 0 THEN [k \in 1 .. 20 |-> 32] \o <<45>> \o DecDigits(-n)
    ELSE [k \in 1 .. 20 |-> 32] \o DecDigits(n)

\* sprintf "%d" / "%ld"
FormatInt(n) == IF n < 0 THEN <<45>> \o DecDigits(-n) ELSE DecDigits(n)

\* the lines of the program: fixed text, formatted number, fixed text
Line(prefix, number, suffix) == <<prefix, number, suffix>>

LINE_TITLE == Line("STM32F0xx Demo\r\n", <<>>, "")
LINE_HELP_T == Line("T - to toggle temperature reading\r\n", <<>>, "")
LINE_BANNER == Line("L<0-99> - to set LED brightness\r\n", <<>>, "")
LINE_ON == Line("Temperature reading ON\r\n", <<>>, "")
LINE_OFF == Line("Temperature reading OFF\r\n", <<>>, "")
LINE_PROMPT == Line("LED command received, waiting for digits...\r\n", <<>>, "")
LINE_NO_DIGITS == Line("No digits received after L command\r\n", <<>>, "")
LineBrightness(b) == Line("\r\nLED brightness set to ", FormatInt(b), "%\r\n")
LineTemp(t) == Line("Temp: ", FormatInt(t), " degC\r\n")

\* the line of the state before the toggle
StatusLineSwapped(flag) == IF flag # 0 THEN LINE_OFF ELSE LINE_ON

StatusLine(flag) == IF flag # 0 THEN LINE_ON ELSE LINE_OFF

\* the lines main sends before its loop
BannerText == <<LINE_TITLE, LINE_HELP_T, LINE_BANNER>>

\* what a step of the main thread does to the outside
Tx(line) == <<"tx", line>>              \* uart_send_string(line)
Echo(ch) == <<"echo", ch>>              \* USART_TDR = ch
SetLed(v) == <<"set", v>>               \* set_led_brightness(v)


\* msTicks when the main loop is entered (main.c:54) right after startup,
\* which has waited 100 + 20 + 50 ms in delay_ms
BootTicks == U32(0, 170)

\* msTicks at a later iteration of an idle main loop, 2500 ms before the
\* counter wraps through 2^32
LateTicks == U32(W16 - 1, W16 - 2500)

\* values of msTicks at which a wait starts: no wrap during the wait, and the
\* wrap after 1, 3 and 2500 ms
T0Set == {BootTicks, U32(W16 - 1, W16 - 1), U32(W16 - 1, W16 - 3), LateTicks}

\* arguments of delay_ms: the ones the program uses, and 0 and 1
MsSet == {0, 1, POST_DIGIT_DELAY, 20, 50, 100, REPORT_DELAY}

\* inputs of get_temperature: every 12-bit sample, and calibration values
\* below, among and above the samples
RawInputs == 0 .. 4095
CalInputs == {0, 1, 1750, 4095, 65535}

\* inputs of set_led_brightness: every uint8_t
ByteInputs == 0 .. 255

----------------------------------------------------------------------------
(* Groups of variables *)

tickVars == <<msTicks, nTicks, t0, spare>>
delayVars == <<ret, ms, start_ticks>>
sessionVars == <<c, brightness_str, idx, start_time, nConsumed>>
timerVars == <<TIM2_PSC, TIM2_ARR>>
pwmVars == <<TIM2_CCR1, arg>>
rxVars == <<RXNE, USART_RDR>>
txVars == <<TXE, USART_TDR>>
adcVars == <<ADC_DR, TEMP30_CAL, temperature, nReports>>
rccVars == <<RCC_CR, RCC_CFGR, RCC_AHBENR, RCC_APB1ENR, RCC_APB2ENR>>
systVars == <<SYST_CSR, SYST_RVR, SYST_CVR>>
adcConfVars == <<ADC_CR, ADC_CFGR1, ADC_CHSELR, ADC_CCR, ADC_SMPR>>
gpioVars == <<GPIOA_MODER, GPIOA_AFRL>>
usartConfVars == <<USART_CR1, USART_CR2, USART_BRR>>
tim2ConfVars == <<TIM2_CR1, TIM2_CCMR1, TIM2_CCER>>
confVars == <<rccVars, systVars, adcConfVars, gpioVars, usartConfVars, tim2ConfVars>>
bootVars == <<plan, snapshot, bannerLines>>
sendVars == <<str, si, sent>>
\* what the main loop and the hardware below it leave alone
fixedVars == <<confVars, bootVars, sendVars, result>>
flagVars == <<temp_reading_active, toggleParity>>

----------------------------------------------------------------------------
(* uart.c *)

\* uart_data_available: USART_ISR & (1 << 5)
uart_data_available == RXNE

\* the loop goes on without waiting
SendWaitCondNone(flag) == FALSE

\* !(USART_ISR & (1 << 7)), the condition of the waits at uart.c:94 and
\* main.c:93
SendWaitCond(flag) == ~flag

\* uart_send_string: every character is written to USART_TDR and the transmit
\* flag awaited, so the call leaves the last character of the line in the
\* register and the flag set
SendString ==
    /\ USART_TDR' = CH_LF
    /\ TXE' = TRUE

(* system.c *)

\* delay_ms(n) is entered: start_ticks = msTicks
CallDelay(n, back) ==
    /\ ms' = n
    /\ start_ticks' = msTicks
    /\ ret' = back
    /\ pc' = "delay"

\* delay_ms returns and its locals end
EndDelay == ms' = 0 /\ start_ticks' = Zero32 /\ ret' = "none"

\* the L branch of main ends and its locals with it
EndSession ==
    c' = 0 /\ brightness_str' = <<>> /\ idx' = 0 /\ start_time' = Zero32 /\ nConsumed' = 0

----------------------------------------------------------------------------
(* Initial states *)

\* the configuration registers as clk_conf, systick_init, adc_conf,
\* pwm_led_init and uart_conf leave them after a reset
Configured ==
    /\ RCC_CR = {RCC_CR_HSION, RCC_CR_HSIRDY}
    /\ RCC_CFGR = RCC_CFGR_SW_HSI \cup RCC_CFGR_SWS_HSI
    /\ RCC_AHBENR = {17}
    /\ RCC_APB1ENR = {0, 17}
    /\ RCC_APB2ENR = {9}
    /\ SYST_CSR = {SYST_CSR_ENABLE, SYST_CSR_TICKINT, SYST_CSR_CLKSOURCE}
    /\ SYST_RVR = SYST_RELOAD
    /\ SYST_CVR = 0
    /\ ADC_CR = {ADC_CR_ADEN, ADC_CR_ADSTART}
    /\ ADC_CFGR1 = {ADC_CFGR1_CONT}
    /\ ADC_CHSELR = {16}
    /\ ADC_CCR = {23}
    /\ ADC_SMPR = Shl(7, 0)
    /\ GPIOA_MODER = Shl(2, 4) \cup Shl(2, 6) \cup Shl(2, 10)
    /\ GPIOA_AFRL = Shl(1, 8) \cup Shl(1, 12) \cup Shl(2, 20)
    /\ USART_CR1 = {USART_CR1_UE, USART_CR1_RE, USART_CR1_TE}
    /\ USART_CR2 = {}
    /\ USART_BRR = BAUD_9600
    /\ TIM2_CR1 = {0}
    /\ TIM2_CCMR1 = Shl(6, 4) \cup {3}
    /\ TIM2_CCER = {0}

\* no call of uart_send_string, uart_receive_char or uart_data_available
\* is under way
NoLibCall == result = 0 /\ str = <<0>> /\ si = 0 /\ sent = <<>>

\* the main thread at position at, the counter at ticks, the compare
\* register at ccr, and everything else as startup leaves it
Start(at, ticks, ccr) ==
    /\ msTicks = ticks
    /\ t0 = ticks
    /\ nTicks = 0
    /\ spare = 0
    /\ pc = at
    /\ c = 0 /\ brightness_str = <<>> /\ idx = 0
    /\ nConsumed = 0
    /\ temp_reading_active = 0
    /\ toggleParity = 0
    /\ TIM2_PSC = PWM_PSC
    /\ TIM2_ARR = PWM_ARR
    /\ TIM2_CCR1 = ccr
    /\ RXNE = FALSE
    /\ USART_RDR = 0
    /\ TXE = TRUE
    /\ USART_TDR = CH_LF
    /\ temperature = 0
    /\ nReports = 0
    /\ lastTemp = Zero32
    /\ Configured
    /\ plan = <<>>
    /\ snapshot = <<>>
    /\ bannerLines = BannerText
    /\ NoLibCall

NoCall == ms = 0 /\ start_ticks = Zero32 /\ ret = "none"

\* the main loop is entered after startup (main.c:54)
Init ==
    /\ Start("poll", BootTicks, 0)
    /\ NoCall
    /\ start_time = Zero32
    /\ arg = 0
    /\ ADC_DR = 0
    /\ TEMP30_CAL \in CalSet
    /\ events = <<>>
    /\ bytesLeft = MaxBytes

\* the first byte after startup was an L command: it has been dispatched and
\* start_time captured (main.c:85), and MaxBytes more bytes are to come
InitSession ==
    /\ Start("collect", BootTicks, 0)
    /\ NoCall
    /\ start_time = msTicks
    /\ arg = 0
    /\ ADC_DR = 0
    /\ TEMP30_CAL \in CalSet
    /\ events = <<Tx(LINE_PROMPT)>>
    /\ bytesLeft = MaxBytes

\* a later iteration of the main loop: the loop has been idle since an L
\* command set the brightness to 55, and the counter is about to wrap
InitLate ==
    /\ Start("poll", LateTicks, 55)
    /\ NoCall
    /\ start_time = Zero32
    /\ arg = 0
    /\ ADC_DR = 0
    /\ TEMP30_CAL \in CalSet
    /\ events = <<>>
    /\ bytesLeft = MaxBytes

\* an L command has been dispatched and start_time captured (main.c:85)
InitCollect ==
    /\ \E t \in T0Set : Start("collect", t, 0)
    /\ NoCall
    /\ start_time = msTicks
    /\ arg = 0
    /\ ADC_DR = 0
    /\ TEMP30_CAL \in CalSet
    /\ events = <<Tx(LINE_PROMPT)>>
    /\ bytesLeft = MaxBytes

\* delay_ms(ms) has been called and start_ticks captured (system.c:49)
InitDelay ==
    /\ \E t \in T0Set : Start("delay", t, 0)
    /\ ms \in MsSet
    /\ start_ticks = msTicks
    /\ ret = "done"
    /\ start_time = Zero32
    /\ arg = 0
    /\ ADC_DR = 0
    /\ TEMP30_CAL \in CalSet
    /\ events = <<>>
    /\ bytesLeft = 0

\* set_led_brightness(arg) is about to be called
InitPwm ==
    /\ \E v \in {0, 55, MAX_BRIGHTNESS} : Start("pwm_call", BootTicks, v)
    /\ NoCall
    /\ start_time = Zero32
    /\ arg \in ByteInputs
    /\ ADC_DR = 0
    /\ TEMP30_CAL \in CalSet
    /\ events = <<>>
    /\ bytesLeft = 0

\* get_temperature is about to be called
InitTemp ==
    /\ Start("temp_call", BootTicks, 0)
    /\ NoCall
    /\ start_time = Zero32
    /\ arg = 0
    /\ ADC_DR \in RawInputs
    /\ TEMP30_CAL \in CalInputs
    /\ events = <<>>
    /\ bytesLeft = 0

\* the calls of main before its loop, and then the rest of main (main.c:31-38)
BootPlan == <<"clk_conf", "systick_init", "adc_conf", "pwm_led_init", "uart_conf",
              "drain">>

\* every configure function called twice in a row
TwicePlan == <<"clk_conf", "clk_conf", "systick_init", "systick_init",
               "adc_conf", "adc_conf", "pwm_led_init", "pwm_led_init",
               "uart_conf", "uart_conf">>

\* RCC_CR and RCC_CFGR when main is entered: after a reset HSI is on, ready
\* and selected; after a restart from a program that ran on another
\* oscillator HSI is off and source 1 selected
ClockAtEntry == {<<{RCC_CR_HSION, RCC_CR_HSIRDY}, {}>>, <<{}, Shl(1, 0) \cup Shl(1, 2)>>}

\* ADC_CR when main is entered: the converter off, or left enabled
AdcAtEntry == {{}, {ADC_CR_ADEN}}

\* USART_CR1, USART_CR2, USART_BRR when main is entered: as reset leaves
\* them, or as a program with another frame and baud rate left them
UsartAtEntry ==
    {<<{}, {}, 0>>,
     <<{USART_CR1_UE, USART_CR1_RE, USART_CR1_TE, USART_CR1_PCE, USART_CR1_M0,
        USART_CR1_OVER8, USART_CR1_M1}, Shl(3, 12), 417>>}

\* main is entered: nothing is configured, the counter is 0, no tick runs
Entry(calls, usart) ==
    /\ msTicks = Zero32
    /\ t0 = Zero32
    /\ nTicks = 0
    /\ spare = 0
    /\ plan = calls
    /\ pc = Head(calls)
    /\ NoCall
    /\ c = 0 /\ brightness_str = <<>> /\ idx = 0 /\ start_time = Zero32
    /\ nConsumed = 0
    /\ temp_reading_active = 0
    /\ toggleParity = 0
    /\ arg = 0
    /\ TIM2_PSC = 0 /\ TIM2_ARR = 0 /\ TIM2_CCR1 = 0
    /\ RXNE = FALSE /\ USART_RDR = 0
    /\ TXE = TRUE /\ USART_TDR = 0
    /\ ADC_DR = 0
    /\ TEMP30_CAL \in CalSet
    /\ temperature = 0
    /\ nReports = 0
    /\ lastTemp = Zero32
    /\ events = <<>>
    /\ \E clock \in ClockAtEntry : RCC_CR = clock[1] /\ RCC_CFGR = clock[2]
    /\ RCC_AHBENR = {} /\ RCC_APB1ENR = {} /\ RCC_APB2ENR = {}
    /\ SYST_CSR = {} /\ SYST_RVR = 0 /\ SYST_CVR = 0
    /\ ADC_CR \in AdcAtEntry
    /\ ADC_CFGR1 = {} /\ ADC_CHSELR = {} /\ ADC_CCR = {} /\ ADC_SMPR = {}
    /\ GPIOA_MODER = {} /\ GPIOA_AFRL = {}
    /\ USART_CR1 = usart[1] /\ USART_CR2 = usart[2] /\ USART_BRR = usart[3]
    /\ TIM2_CR1 = {} /\ TIM2_CCMR1 = {} /\ TIM2_CCER = {}
    /\ snapshot = <<>>
    /\ bannerLines = <<>>
    /\ NoLibCall

\* main is entered after a reset of the serial peripheral
InitBoot ==
    /\ Entry(BootPlan, <<{}, {}, 0>>)
    /\ bytesLeft = MaxBytes

\* the configure functions are about to be called twice each
InitConf ==
    /\ \E usart \in UsartAtEntry : Entry(TwicePlan, usart)
    /\ bytesLeft = 0

\* every register a configure function writes
Registers == <<confVars, TIM2_PSC, TIM2_ARR, TIM2_CCR1>>

\* the functions that configure a peripheral
ConfigureCalls == {"clk_conf", "systick_init", "adc_conf", "pwm_led_init", "uart_conf"}

\* a configure function is called again from the main loop, where startup
\* has left the registers configured and an L command may have set the
\* brightness to 55 or 99; the registers at the call are kept for comparison
InitAgain ==
    /\ msTicks = BootTicks /\ t0 = BootTicks /\ nTicks = 0 /\ spare = 0
    /\ \E again \in ConfigureCalls : plan = <<again>> /\ pc = again
    /\ NoCall
    /\ c = 0 /\ brightness_str = <<>> /\ idx = 0 /\ start_time = Zero32
    /\ nConsumed = 0
    /\ temp_reading_active = 0
    /\ toggleParity = 0
    /\ arg = 0
    /\ TIM2_PSC = PWM_PSC
    /\ TIM2_ARR = PWM_ARR
    /\ TIM2_CCR1 \in {0, 55, MAX_BRIGHTNESS}
    /\ RXNE = FALSE /\ USART_RDR = 0
    /\ TXE = TRUE /\ USART_TDR = CH_LF
    /\ ADC_DR = 0
    /\ TEMP30_CAL \in CalSet
    /\ temperature = 0
    /\ nReports = 0
    /\ lastTemp = Zero32
    /\ events = <<>>
    /\ Configured
    /\ bannerLines = BannerText
    /\ NoLibCall
    /\ bytesLeft = 0
    /\ snapshot = <<pc, Registers>>

----------------------------------------------------------------------------
(* The main thread *)

\* main.c:57-85, the command dispatch of one loop iteration, up to the
\* capture of start_time for an L command
Poll ==
    /\ pc = "poll"
    /\ IF uart_data_available
       THEN LET received_char == USART_RDR IN
            /\ RXNE' = FALSE
            /\ USART_RDR' = 0
            /\ IF IsToggleCmd(received_char)
               THEN /\ temp_reading_active' = Toggle(temp_reading_active)
                    /\ SendString
                    /\ events' = <<Tx(StatusLine(Toggle(temp_reading_active)))>>
                    /\ toggleParity' = 1 - toggleParity
                    /\ pc' = "report"
                    /\ UNCHANGED sessionVars
               ELSE IF IsLedCmd(received_char)
               THEN /\ SendString
                    /\ events' = <<Tx(LINE_PROMPT)>>
                    /\ brightness_str' = <<>>
                    /\ idx' = 0
                    /\ start_time' = msTicks
                    /\ pc' = "collect"
                    /\ UNCHANGED <<flagVars, c, nConsumed>>
               ELSE /\ pc' = "report"
                    /\ events' = <<>>
                    /\ UNCHANGED <<flagVars, sessionVars, txVars>>
       ELSE /\ pc' = "report"
            /\ events' = <<>>
            /\ UNCHANGED <<rxVars, flagVars, sessionVars, txVars>>
    /\ UNCHANGED <<tickVars, delayVars, timerVars, pwmVars, adcVars, bytesLeft>>
    /\ UNCHANGED <<fixedVars, lastTemp>>

\* main.c:86-92, one iteration of the digit-collection loop: the loop ends,
\* or a byte is taken from the receive register and echoed, or nothing is
\* available and the loop goes round
CollectLoop ==
    /\ pc = "collect"
    /\ IF ~CollectCond(idx, msTicks, start_time)
       THEN /\ pc' = "finish"
            /\ events' = <<>>
            /\ UNCHANGED <<c, rxVars, txVars, nConsumed>>
       ELSE IF uart_data_available
       THEN /\ c' = USART_RDR
            /\ RXNE' = FALSE
            /\ USART_RDR' = 0
            /\ USART_TDR' = USART_RDR
            /\ TXE' = FALSE
            /\ events' = <<Echo(USART_RDR)>>
            /\ nConsumed' = nConsumed + 1
            /\ pc' = "echo_wait"
       ELSE /\ events' = <<>>
            /\ UNCHANGED <<pc, c, rxVars, txVars, nConsumed>>
    /\ UNCHANGED <<tickVars, delayVars, brightness_str, idx, start_time,
                   timerVars, pwmVars, adcVars, flagVars, bytesLeft>>
    /\ UNCHANGED <<fixedVars, lastTemp>>

\* main.c:93-104, after the wait for the transmit flag: the digit is stored
\* and delay_ms(5) entered, or the loop is left on a non-digit
EchoWait ==
    /\ pc = "echo_wait"
    /\ ~SendWaitCond(TXE)
    /\ events' = <<>>
    /\ IF IsDigit(c)
       THEN /\ brightness_str' = Append(brightness_str, c)
            /\ idx' = idx + 1
            /\ CallDelay(POST_DIGIT_DELAY, "collect")
       ELSE /\ pc' = "finish"
            /\ UNCHANGED <<brightness_str, idx, delayVars>>
    /\ UNCHANGED <<tickVars, c, start_time, nConsumed, timerVars, pwmVars, rxVars,
                   txVars, adcVars, flagVars, bytesLeft>>
    /\ UNCHANGED <<fixedVars, lastTemp>>

\* main.c:109-128, the digits are converted and the brightness set, or the
\* missing digits reported
Finish ==
    /\ pc = "finish"
    /\ IF HasDigits(idx)
       THEN LET brightness == ParseDigits(brightness_str, idx) IN
            /\ TIM2_CCR1' = set_led_brightness(brightness)
            /\ events' = <<SetLed(brightness), Tx(LineBrightness(brightness))>>
       ELSE /\ events' = <<Tx(LINE_NO_DIGITS)>>
            /\ UNCHANGED TIM2_CCR1
    /\ SendString
    /\ pc' = "report"
    /\ UNCHANGED <<tickVars, delayVars, sessionVars, timerVars, arg, rxVars, adcVars,
                   flagVars, bytesLeft>>
    /\ UNCHANGED <<fixedVars, lastTemp>>

\* main.c:129-141, the command branch ends, and then the temperature report
\* of one loop iteration; the sample is whatever the converter has latched in
\* ADC_DR when it is read
Report ==
    /\ pc = "report"
    /\ EndSession
    /\ IF temp_reading_active # 0
       THEN \E raw \in RawSet :
            /\ ADC_DR' = raw
            /\ temperature' = get_temperature(raw, TEMP30_CAL)
            /\ SendString
            /\ events' = <<Tx(LineTemp(get_temperature(raw, TEMP30_CAL)))>>
            /\ nReports' = nReports + 1
            /\ lastTemp' = msTicks
            /\ CallDelay(REPORT_DELAY, "poll")
       ELSE /\ pc' = "poll"
            /\ events' = <<>>
            /\ UNCHANGED <<ADC_DR, temperature, nReports, lastTemp, txVars, delayVars>>
    /\ UNCHANGED <<tickVars, timerVars, pwmVars, rxVars, flagVars, TEMP30_CAL,
                   bytesLeft>>
    /\ UNCHANGED fixedVars

\* system.c:52, delay_ms leaves its loop when the condition is false
DelayLoop ==
    /\ pc = "delay"
    /\ ~DelayCond(msTicks, start_ticks, ms)
    /\ pc' = ret
    /\ EndDelay
    /\ events' = <<>>
    /\ UNCHANGED <<tickVars, sessionVars, timerVars, pwmVars, rxVars, txVars,
                   adcVars, flagVars, bytesLeft>>
    /\ UNCHANGED <<fixedVars, lastTemp>>

----------------------------------------------------------------------------
(* The hardware *)

\* the main thread does nothing but wait for the counter: it is in the loop
\* of delay_ms, or going round the digit-collection loop with no byte to take
WaitPending ==
    \/ /\ pc = "delay"
       /\ DelayCond(msTicks, start_ticks, ms)
       /\ ret = "poll" => nReports <= MaxReports
    \/ /\ pc = "collect"
       /\ ~RXNE
       /\ events = <<>>
       /\ CollectCond(idx, msTicks, start_time)

\* the SysTick counter runs and raises its interrupt (system.c:25)
TickEnabled == {SYST_CSR_ENABLE, SYST_CSR_TICKINT} \subseteq SYST_CSR

\* system.c:36-39, SysTick_Handler: ++msTicks
SysTick_Handler ==
    /\ TickEnabled
    /\ WaitPending \/ spare < MaxSpare
    /\ msTicks' = Inc32(msTicks)
    /\ nTicks' = nTicks + 1
    /\ spare' = IF WaitPending THEN spare ELSE spare + 1
    /\ UNCHANGED <<pc, t0, delayVars, sessionVars, timerVars, pwmVars, rxVars,
                   txVars, adcVars, flagVars, events, bytesLeft>>
    /\ UNCHANGED <<fixedVars, lastTemp>>

\* the moments at which the serial line delivers a byte to the polling
\* digit-collection loop: near the start and near the end of its window
ArrivalTime ==
    pc = "collect" =>
        \/ LtSmall(Sub32(msTicks, start_time), ArrivalWindow)
        \/ ~LtSmall(Sub32(msTicks, start_time), COLLECT_TIMEOUT - ArrivalWindow)

\* the peripheral and its receiver are enabled (uart.c:66-68)
RxEnabled == {USART_CR1_UE, USART_CR1_RE} \subseteq USART_CR1

\* a byte arrives on the serial line; the receive register holds one byte,
\* and a byte that arrives while it is full is dropped by the receiver
RxArrive ==
    /\ RxEnabled
    /\ bytesLeft > 0
    /\ ArrivalTime
    /\ bytesLeft' = bytesLeft - 1
    /\ \E b \in Alphabet :
         IF RXNE
         THEN UNCHANGED rxVars
         ELSE RXNE' = TRUE /\ USART_RDR' = b
    /\ UNCHANGED <<pc, tickVars, delayVars, sessionVars, timerVars, pwmVars,
                   txVars, adcVars, flagVars, events>>
    /\ UNCHANGED <<fixedVars, lastTemp>>

\* the transmitter has moved the byte out of USART_TDR: TXE is set
TxEmpty ==
    /\ ~TXE
    /\ TXE' = TRUE
    /\ UNCHANGED <<pc, tickVars, delayVars, sessionVars, timerVars, pwmVars,
                   rxVars, USART_TDR, adcVars, flagVars, events, bytesLeft>>
    /\ UNCHANGED <<fixedVars, lastTemp>>

----------------------------------------------------------------------------
(* Startup: the configure functions *)

\* what no configure function touches
idleVars == <<tickVars, flagVars, sessionVars, arg, rxVars, txVars, adcVars,
              lastTemp, bytesLeft, bannerLines, result, sendVars>>

\* a configure function has run to its end, and main goes on with the call
\* that follows it (main.c:31-35); when that is the same function again, the
\* registers it has left are kept for comparison
Return ==
    /\ pc = "return"
    /\ LET finished == Head(plan)
           rest == Tail(plan)
       IN  /\ plan' = rest
           /\ pc' = IF rest = <<>> THEN "done" ELSE Head(rest)
           /\ snapshot' = IF rest # <<>> /\ Head(rest) = finished
                          THEN <<finished, Registers>>
                          ELSE <<>>
    /\ events' = <<>>
    /\ UNCHANGED <<idleVars, delayVars, Registers>>

(* system.c: clk_conf *)

\* RCC_CFGR & RCC_CFGR_SWS
ClockStatus(cfgr) == cfgr \cap RCC_CFGR_SWS

\* the selection bits are tested in place of the status bits
ClockConfirmedSelection(cfgr) == cfgr \cap RCC_CFGR_SW = RCC_CFGR_SW_HSI

\* (RCC_CFGR & RCC_CFGR_SWS) == RCC_CFGR_SWS_HSI, the exit of the second wait
ClockConfirmed(cfgr) == ClockStatus(cfgr) = RCC_CFGR_SWS_HSI

\* system.c:69, RCC_CR |= RCC_CR_HSION
ClkHsiOn ==
    /\ pc = "clk_conf"
    /\ RCC_CR' = SetBits(RCC_CR, {RCC_CR_HSION})
    /\ pc' = "clk_wait_hsi"
    /\ events' = <<>>
    /\ UNCHANGED <<idleVars, delayVars, plan, snapshot, RCC_CFGR, RCC_AHBENR,
                   RCC_APB1ENR, RCC_APB2ENR, systVars, adcConfVars, gpioVars,
                   usartConfVars, tim2ConfVars, timerVars, TIM2_CCR1>>

\* system.c:71-74, the wait for RCC_CR_HSIRDY ends and HSI is selected
ClkSelect ==
    /\ pc = "clk_wait_hsi"
    /\ RCC_CR_HSIRDY \in RCC_CR
    /\ RCC_CFGR' = SetBits(ClearBits(RCC_CFGR, RCC_CFGR_SW), RCC_CFGR_SW_HSI)
    /\ pc' = "clk_wait_sws"
    /\ events' = <<>>
    /\ UNCHANGED <<idleVars, delayVars, plan, snapshot, RCC_CR, RCC_AHBENR,
                   RCC_APB1ENR, RCC_APB2ENR, systVars, adcConfVars, gpioVars,
                   usartConfVars, tim2ConfVars, timerVars, TIM2_CCR1>>

\* system.c:76-79, the wait for the switch status ends and clk_conf returns
ClkDone ==
    /\ pc = "clk_wait_sws"
    /\ ClockConfirmed(RCC_CFGR)
    /\ pc' = "return"
    /\ events' = <<>>
    /\ UNCHANGED <<idleVars, delayVars, plan, snapshot, Registers>>

\* the oscillator that was switched on has become stable
HsiReady ==
    /\ RCC_CR_HSION \in RCC_CR
    /\ RCC_CR_HSIRDY \notin RCC_CR
    /\ RCC_CR' = RCC_CR \cup {RCC_CR_HSIRDY}
    /\ UNCHANGED <<pc, events, idleVars, delayVars, plan, snapshot, RCC_CFGR,
                   RCC_AHBENR, RCC_APB1ENR, RCC_APB2ENR, systVars, adcConfVars,
                   gpioVars, usartConfVars, tim2ConfVars, timerVars, TIM2_CCR1>>

\* the clock switch has followed the selection: the status bits 2-3 show the
\* source that bits 0-1 select
ClockSwitched ==
    /\ LET selected == {b + 2 : b \in RCC_CFGR \cap RCC_CFGR_SW} IN
         /\ ClockStatus(RCC_CFGR) # selected
         /\ selected = RCC_CFGR_SWS_HSI => RCC_CR_HSIRDY \in RCC_CR
         /\ RCC_CFGR' = (RCC_CFGR \ RCC_CFGR_SWS) \cup selected
    /\ UNCHANGED <<pc, events, idleVars, delayVars, plan, snapshot, RCC_CR,
                   RCC_AHBENR, RCC_APB1ENR, RCC_APB2ENR, systVars, adcConfVars,
                   gpioVars, usartConfVars, tim2ConfVars, timerVars, TIM2_CCR1>>

(* system.c: systick_init *)

\* system.c:20-26
SystickInit ==
    /\ pc = "systick_init"
    /\ SYST_RVR' = SYST_RELOAD
    /\ SYST_CVR' = 0
    /\ SYST_CSR' = SetBits(SYST_CSR, {SYST_CSR_CLKSOURCE, SYST_CSR_ENABLE, SYST_CSR_TICKINT})
    /\ pc' = "return"
    /\ events' = <<>>
    /\ UNCHANGED <<idleVars, delayVars, plan, snapshot, rccVars, adcConfVars,
                   gpioVars, usartConfVars, tim2ConfVars, timerVars, TIM2_CCR1>>

(* adc.c: adc_conf *)

\* the wait tests ADEN in place of ADCAL
CalibrationDoneWrongBit(cr) == ADC_CR_ADEN \notin cr

\* !(ADC_CR & ADC_CR_ADCAL), the exit of the wait at adc.c:36
CalibrationDone(cr) == ADC_CR_ADCAL \notin cr

\* what adc_conf leaves alone
adcRest == <<idleVars, plan, snapshot, RCC_CR, RCC_CFGR, RCC_AHBENR, RCC_APB1ENR,
             systVars, gpioVars, usartConfVars, tim2ConfVars, timerVars, TIM2_CCR1>>

\* adc.c:27-31, the clock of the converter is enabled, and the converter
\* asked to switch off if it is on
AdcConfEnter ==
    /\ pc = "adc_conf"
    /\ RCC_APB2ENR' = SetBits(RCC_APB2ENR, {9})
    /\ IF ADC_CR_ADEN \in ADC_CR
       THEN ADC_CR' = SetBits(ADC_CR, {ADC_CR_ADDIS}) /\ pc' = "adc_wait_off"
       ELSE UNCHANGED ADC_CR /\ pc' = "adc_calibrate"
    /\ events' = <<>>
    /\ UNCHANGED <<adcRest, delayVars, ADC_CFGR1, ADC_CHSELR, ADC_CCR, ADC_SMPR>>

\* adc.c:32, the wait for ADEN to clear ends
AdcWaitOff ==
    /\ pc = "adc_wait_off"
    /\ ADC_CR_ADEN \notin ADC_CR
    /\ pc' = "adc_calibrate"
    /\ events' = <<>>
    /\ UNCHANGED <<adcRest, delayVars, RCC_APB2ENR, adcConfVars>>

\* adc.c:35, ADC_CR |= ADC_CR_ADCAL
AdcCalibrate ==
    /\ pc = "adc_calibrate"
    /\ ADC_CR' = SetBits(ADC_CR, {ADC_CR_ADCAL})
    /\ pc' = "adc_wait_cal"
    /\ events' = <<>>
    /\ UNCHANGED <<adcRest, delayVars, RCC_APB2ENR, ADC_CFGR1, ADC_CHSELR, ADC_CCR,
                   ADC_SMPR>>

\* adc.c:36-41, the wait for ADCAL to clear ends, the temperature sensor and
\* the sampling time are set, and delay_ms(100) is entered
AdcWaitCal ==
    /\ pc = "adc_wait_cal"
    /\ CalibrationDone(ADC_CR)
    /\ ADC_CCR' = SetBits(ADC_CCR, {23})
    /\ ADC_SMPR' = SetBits(ADC_SMPR, Shl(7, 0))
    /\ CallDelay(ADC_STABLE_DELAY, "adc_enable")
    /\ events' = <<>>
    /\ UNCHANGED <<adcRest, RCC_APB2ENR, ADC_CR, ADC_CFGR1, ADC_CHSELR>>

\* adc.c:43, ADC_CFGR1 |= (1 << 13), continuous mode
AdcContinuous ==
    /\ pc = "adc_enable"
    /\ ADC_CFGR1' = SetBits(ADC_CFGR1, {ADC_CFGR1_CONT})
    /\ pc' = "adc_channel"
    /\ events' = <<>>
    /\ UNCHANGED <<adcRest, delayVars, RCC_APB2ENR, ADC_CR, ADC_CHSELR, ADC_CCR, ADC_SMPR>>

\* adc.c:46, ADC_CHSELR |= (1 << 16), the channel of the temperature sensor
AdcChannel ==
    /\ pc = "adc_channel"
    /\ ADC_CHSELR' = SetBits(ADC_CHSELR, {16})
    /\ pc' = "adc_aden"
    /\ events' = <<>>
    /\ UNCHANGED <<adcRest, delayVars, RCC_APB2ENR, ADC_CR, ADC_CFGR1, ADC_CCR, ADC_SMPR>>

\* adc.c:49, ADC_CR |= ADC_CR_ADEN
AdcEnable ==
    /\ pc = "adc_aden"
    /\ ADC_CR' = SetBits(ADC_CR, {ADC_CR_ADEN})
    /\ pc' = "adc_wait_on"
    /\ events' = <<>>
    /\ UNCHANGED <<adcRest, delayVars, RCC_APB2ENR, ADC_CFGR1, ADC_CHSELR, ADC_CCR,
                   ADC_SMPR>>

\* adc.c:50-52, the wait for ADEN ends and delay_ms(20) is entered
AdcWaitOn ==
    /\ pc = "adc_wait_on"
    /\ ADC_CR_ADEN \in ADC_CR
    /\ CallDelay(ADC_START_DELAY, "adc_start")
    /\ events' = <<>>
    /\ UNCHANGED <<adcRest, RCC_APB2ENR, adcConfVars>>

\* adc.c:54-55, ADC_CR |= ADC_CR_ADSTART, and adc_conf returns
AdcStart ==
    /\ pc = "adc_start"
    /\ ADC_CR' = SetBits(ADC_CR, {ADC_CR_ADSTART})
    /\ pc' = "return"
    /\ events' = <<>>
    /\ UNCHANGED <<adcRest, delayVars, RCC_APB2ENR, ADC_CFGR1, ADC_CHSELR, ADC_CCR,
                   ADC_SMPR>>

\* the converter has switched off as ADDIS asked: it is neither enabled nor
\* converting
AdcSwitchedOff ==
    /\ ADC_CR_ADDIS \in ADC_CR
    /\ ADC_CR' = ADC_CR \ {ADC_CR_ADEN, ADC_CR_ADDIS, ADC_CR_ADSTART}
    /\ UNCHANGED <<pc, events, adcRest, delayVars, RCC_APB2ENR, ADC_CFGR1, ADC_CHSELR,
                   ADC_CCR, ADC_SMPR>>

\* the calibration that ADCAL started has ended
AdcCalibrated ==
    /\ ADC_CR_ADCAL \in ADC_CR
    /\ ADC_CR' = ADC_CR \ {ADC_CR_ADCAL}
    /\ UNCHANGED <<pc, events, adcRest, delayVars, RCC_APB2ENR, ADC_CFGR1, ADC_CHSELR,
                   ADC_CCR, ADC_SMPR>>

(* pwm.c: pwm_led_init *)

\* pwm.c:26-49
PwmLedInit ==
    /\ pc = "pwm_led_init"
    /\ RCC_AHBENR' = SetBits(RCC_AHBENR, {17})
    /\ RCC_APB1ENR' = SetBits(RCC_APB1ENR, {0})
    /\ GPIOA_MODER' = SetBits(ClearBits(GPIOA_MODER, Shl(3, 10)), Shl(2, 10))
    /\ GPIOA_AFRL' = SetBits(ClearBits(GPIOA_AFRL, Shl(15, 20)), Shl(2, 20))
    /\ TIM2_PSC' = PWM_PSC
    /\ TIM2_ARR' = PWM_ARR
    /\ TIM2_CCMR1' = SetBits(SetBits(ClearBits(TIM2_CCMR1, Shl(7, 4)), Shl(6, 4)), {3})
    /\ TIM2_CCER' = SetBits(TIM2_CCER, {0})
    /\ TIM2_CCR1' = 0
    /\ TIM2_CR1' = SetBits(TIM2_CR1, {0})
    /\ pc' = "return"
    /\ events' = <<>>
    /\ UNCHANGED <<idleVars, delayVars, plan, snapshot, RCC_CR, RCC_CFGR, RCC_APB2ENR,
                   systVars, adcConfVars, usartConfVars>>

(* uart.c: uart_conf *)

\* what uart_conf leaves alone once the pins are set
uartRest == <<idleVars, delayVars, plan, snapshot, rccVars, systVars, adcConfVars,
              gpioVars, tim2ConfVars, timerVars, TIM2_CCR1>>

\* uart.c:31-44, the pins PA2 and PA3 and the clocks
UartPins ==
    /\ pc = "uart_conf"
    /\ RCC_AHBENR' = SetBits(RCC_AHBENR, {17})
    /\ GPIOA_MODER' = SetBits(ClearBits(SetBits(ClearBits(GPIOA_MODER, Shl(3, 4)), Shl(2, 4)),
                                      Shl(3, 6)), Shl(2, 6))
    /\ GPIOA_AFRL' = SetBits(ClearBits(SetBits(ClearBits(GPIOA_AFRL, Shl(15, 8)), Shl(1, 8)),
                                    Shl(15, 12)), Shl(1, 12))
    /\ RCC_APB1ENR' = SetBits(RCC_APB1ENR, {17})
    /\ pc' = "uart_disable"
    /\ events' = <<>>
    /\ UNCHANGED <<idleVars, delayVars, plan, snapshot, RCC_CR, RCC_CFGR, RCC_APB2ENR,
                   systVars, adcConfVars, usartConfVars, tim2ConfVars, timerVars,
                   TIM2_CCR1>>

\* uart.c:46, USART_CR1 &= ~(1 << 0)
UartDisable ==
    /\ pc = "uart_disable"
    /\ USART_CR1' = ClearBits(USART_CR1, {USART_CR1_UE})
    /\ pc' = "uart_frame"
    /\ events' = <<>>
    /\ UNCHANGED <<uartRest, USART_CR2, USART_BRR>>

\* uart.c:48-57, oversampling by 16, 8 data bits, no parity, 1 stop bit
UartFrame ==
    /\ pc = "uart_frame"
    /\ USART_CR1' = ClearBits(USART_CR1, {USART_CR1_OVER8, USART_CR1_M0, USART_CR1_M1, USART_CR1_PCE})
    /\ USART_CR2' = ClearBits(USART_CR2, Shl(3, 12))
    /\ pc' = "uart_baud"
    /\ events' = <<>>
    /\ UNCHANGED <<uartRest, USART_BRR>>

\* uart.c:59, USART_BRR = 0x341
UartBaud ==
    /\ pc = "uart_baud"
    /\ USART_BRR' = BAUD_9600
    /\ pc' = "uart_te"
    /\ events' = <<>>
    /\ UNCHANGED <<uartRest, USART_CR1, USART_CR2>>

\* uart.c:64, the transmitter is enabled
UartTe ==
    /\ pc = "uart_te"
    /\ USART_CR1' = SetBits(USART_CR1, {USART_CR1_TE})
    /\ pc' = "uart_re"
    /\ events' = <<>>
    /\ UNCHANGED <<uartRest, USART_CR2, USART_BRR>>

\* uart.c:66, the receiver is enabled
UartRe ==
    /\ pc = "uart_re"
    /\ USART_CR1' = SetBits(USART_CR1, {USART_CR1_RE})
    /\ pc' = "uart_ue"
    /\ events' = <<>>
    /\ UNCHANGED <<uartRest, USART_CR2, USART_BRR>>

\* uart.c:68-69, the peripheral is enabled, and uart_conf returns
UartUe ==
    /\ pc = "uart_ue"
    /\ USART_CR1' = SetBits(USART_CR1, {USART_CR1_UE})
    /\ pc' = "return"
    /\ events' = <<>>
    /\ UNCHANGED <<uartRest, USART_CR2, USART_BRR>>

(* main.c: before the loop *)

\* what main leaves alone between the configure calls and its loop
mainRest == <<tickVars, flagVars, sessionVars, arg, adcVars, lastTemp, bytesLeft,
              result, sendVars, snapshot, Registers>>

\* main.c:38-41, one round of the loop that empties the receiver: a byte is
\* read and dropped, or none is there and delay_ms(50) is entered
Drain ==
    /\ pc = "drain"
    /\ IF uart_data_available
       THEN /\ RXNE' = FALSE
            /\ USART_RDR' = 0
            /\ UNCHANGED <<pc, delayVars>>
       ELSE /\ CallDelay(BOOT_DELAY, "banner")
            /\ UNCHANGED rxVars
    /\ plan' = <<>>
    /\ events' = <<>>
    /\ UNCHANGED <<mainRest, txVars, bannerLines>>

\* main.c:46-51, temp_reading_active = 0 and the three lines, one
\* uart_send_string each
Banner ==
    /\ pc = "banner"
    /\ LET line == BannerText[Len(bannerLines) + 1] IN
         /\ events' = <<Tx(line)>>
         /\ bannerLines' = Append(bannerLines, line)
    /\ SendString
    /\ pc' = IF Len(bannerLines) + 1 = Len(BannerText) THEN "poll" ELSE "banner"
    /\ UNCHANGED <<mainRest, plan, delayVars, rxVars>>

Next ==
    \/ Poll
    \/ CollectLoop
    \/ EchoWait
    \/ Finish
    \/ Report
    \/ DelayLoop
    \/ SysTick_Handler
    \/ RxArrive
    \/ TxEmpty

\* pwm.c:62-70, set_led_brightness(arg), and then again with the value it wrote
SetLedBrightness ==
    /\ pc \in {"pwm_call", "pwm_again"}
    /\ LET brightness == IF pc = "pwm_call" THEN arg ELSE TIM2_CCR1 IN
         /\ TIM2_CCR1' = set_led_brightness(brightness)
         /\ events' = <<SetLed(brightness)>>
    /\ pc' = IF pc = "pwm_call" THEN "pwm_again" ELSE "pwm_done"
    /\ UNCHANGED <<tickVars, delayVars, sessionVars, timerVars, arg, rxVars, txVars,
                   adcVars, flagVars, bytesLeft>>
    /\ UNCHANGED <<fixedVars, lastTemp>>

\* adc.c:73-77, get_temperature()
GetTemperature ==
    /\ pc = "temp_call"
    /\ temperature' = get_temperature(ADC_DR, TEMP30_CAL)
    /\ pc' = "temp_done"
    /\ UNCHANGED <<tickVars, delayVars, sessionVars, timerVars, pwmVars, rxVars,
                   txVars, ADC_DR, TEMP30_CAL, nReports, flagVars, events, bytesLeft>>
    /\ UNCHANGED <<fixedVars, lastTemp>>

\* the steps of the main thread
Main == Poll \/ CollectLoop \/ EchoWait \/ Finish \/ Report \/ DelayLoop

\* the program from the entry of the main loop
Spec == Init /\ [][Next]_vars

\* the program from the digit collection of a first L command
SpecSession == InitSession /\ [][Next]_vars

\* the program from a later iteration, with the counter about to wrap
SpecLate == InitLate /\ [][Next]_vars

\* one digit-collection session, from the capture of start_time to the end
\* of the L branch
NextCollect ==
    \/ CollectLoop
    \/ EchoWait
    \/ Finish
    \/ DelayLoop
    \/ SysTick_Handler
    \/ RxArrive
    \/ TxEmpty

SpecCollect ==
    /\ InitCollect
    /\ [][NextCollect]_vars
    /\ WF_vars(CollectLoop \/ EchoWait \/ Finish \/ DelayLoop)
    /\ WF_vars(SysTick_Handler)
    /\ WF_vars(TxEmpty)

\* one call of delay_ms
NextDelay ==
    \/ DelayLoop
    \/ SysTick_Handler

SpecDelay ==
    /\ InitDelay
    /\ [][NextDelay]_vars
    /\ WF_vars(DelayLoop)
    /\ WF_vars(SysTick_Handler)

\* the steps of the configure functions
Configure ==
    \/ ClkHsiOn
    \/ ClkSelect
    \/ ClkDone
    \/ SystickInit
    \/ AdcConfEnter
    \/ AdcWaitOff
    \/ AdcCalibrate
    \/ AdcWaitCal
    \/ AdcContinuous
    \/ AdcChannel
    \/ AdcEnable
    \/ AdcWaitOn
    \/ AdcStart
    \/ PwmLedInit
    \/ UartPins
    \/ UartDisable
    \/ UartFrame
    \/ UartBaud
    \/ UartTe
    \/ UartRe
    \/ UartUe
    \/ Return

\* main from its entry to the first command dispatch of its loop
NextBoot ==
    \/ Configure
    \/ HsiReady
    \/ ClockSwitched
    \/ AdcSwitchedOff
    \/ AdcCalibrated
    \/ Drain
    \/ Banner
    \/ Poll
    \/ DelayLoop
    \/ SysTick_Handler
    \/ RxArrive

SpecBoot == InitBoot /\ [][NextBoot]_vars

\* every configure function called twice, the hardware answering each request
NextConf ==
    \/ Configure
    \/ HsiReady
    \/ ClockSwitched
    \/ AdcSwitchedOff
    \/ AdcCalibrated
    \/ DelayLoop
    \/ SysTick_Handler

SpecConf ==
    /\ InitConf
    /\ [][NextConf]_vars
    /\ WF_vars(Configure \/ DelayLoop)
    /\ WF_vars(HsiReady)
    /\ WF_vars(ClockSwitched)
    /\ WF_vars(AdcSwitchedOff)
    /\ WF_vars(AdcCalibrated)
    /\ WF_vars(SysTick_Handler)

\* every configure function called twice at startup, or once more from the
\* main loop
SpecAgain ==
    /\ (InitConf \/ InitAgain)
    /\ [][NextConf]_vars
    /\ WF_vars(Configure \/ DelayLoop)
    /\ WF_vars(HsiReady)
    /\ WF_vars(ClockSwitched)
    /\ WF_vars(AdcSwitchedOff)
    /\ WF_vars(AdcCalibrated)
    /\ WF_vars(SysTick_Handler)

----------------------------------------------------------------------------
(* uart.c: the receive functions called on their own *)

\* everything but the position of the caller, the value returned and the
\* receiver
rxRest == <<tickVars, delayVars, flagVars, sessionVars, timerVars, pwmVars, txVars,
            adcVars, lastTemp, bytesLeft, events, confVars, bootVars, sendVars>>

\* the cast keeps seven bits only
ToChar7(value) == value % 128

\* (char)USART_RDR, the low eight bits of the register (uart.c:115)
ToChar(value) == value % 256

\* uart.c:109-120, uart_receive_char: reading USART_RDR clears the flag
UartReceiveChar ==
    /\ pc = "rx_call"
    /\ IF RXNE
       THEN /\ result' = ToChar(USART_RDR)
            /\ RXNE' = FALSE
            /\ USART_RDR' = 0
       ELSE /\ result' = 0
            /\ UNCHANGED rxVars
    /\ pc' = "done"
    /\ UNCHANGED rxRest

\* uart.c:130-134, uart_data_available
UartDataAvailable ==
    /\ pc = "avail_call"
    /\ result' = IF RXNE THEN 1 ELSE 0
    /\ pc' = "done"
    /\ UNCHANGED <<rxVars, rxRest>>

\* a receive function is about to be called from the main loop, the flag
\* set with any byte in the register, or clear
InitRx ==
    /\ msTicks = BootTicks /\ t0 = BootTicks /\ nTicks = 0 /\ spare = 0
    /\ pc \in {"rx_call", "avail_call"}
    /\ NoCall
    /\ c = 0 /\ brightness_str = <<>> /\ idx = 0 /\ start_time = Zero32
    /\ nConsumed = 0
    /\ temp_reading_active = 0
    /\ toggleParity = 0
    /\ arg = 0
    /\ TIM2_PSC = PWM_PSC
    /\ TIM2_ARR = PWM_ARR
    /\ TIM2_CCR1 = 0
    /\ RXNE \in BOOLEAN
    /\ USART_RDR \in IF RXNE THEN ByteInputs ELSE {0}
    /\ TXE = TRUE /\ USART_TDR = CH_LF
    /\ ADC_DR = 0
    /\ TEMP30_CAL \in CalSet
    /\ temperature = 0
    /\ nReports = 0
    /\ lastTemp = Zero32
    /\ events = <<>>
    /\ Configured
    /\ plan = <<>>
    /\ snapshot = <<>>
    /\ bannerLines = BannerText
    /\ NoLibCall
    /\ bytesLeft = 0

NextRx ==
    \/ UartReceiveChar
    \/ UartDataAvailable

SpecRx == InitRx /\ [][NextRx]_vars /\ WF_vars(NextRx)

----------------------------------------------------------------------------
(* uart.c: uart_send_string called on its own *)

\* everything but the position of the caller, the transmitter and the
\* locals of uart_send_string
sendRest == <<tickVars, delayVars, flagVars, sessionVars, timerVars, pwmVars, rxVars,
              adcVars, lastTemp, bytesLeft, events, confVars, bootVars, result>>

\* the memory at the argument: MaxStr bytes, a NUL among them or not, and a
\* NUL behind them
StrSet == {mem \in [1 .. MaxStr + 1 -> {0, CH_T, CH_L}] : mem[MaxStr + 1] = 0}

\* uart.c:88-91, the test of str[i], and USART_TDR = str[i]: the write clears
\* TXE, and a byte written while the previous one is still in the register
\* takes its place
SendChar ==
    /\ pc = "send_loop"
    /\ LET ch == str[si + 1] IN
         IF ch # 0
         THEN /\ USART_TDR' = ch
              /\ TXE' = FALSE
              /\ sent' = IF TXE THEN Append(sent, ch)
                                ELSE Append(SubSeq(sent, 1, Len(sent) - 1), ch)
              /\ pc' = "send_wait"
         ELSE /\ pc' = "done"
              /\ UNCHANGED <<txVars, sent>>
    /\ UNCHANGED <<str, si, sendRest>>

\* uart.c:94 and the i++ of uart.c:88, the wait for TXE ends
SendWait ==
    /\ pc = "send_wait"
    /\ ~SendWaitCond(TXE)
    /\ si' = si + 1
    /\ pc' = "send_loop"
    /\ UNCHANGED <<txVars, str, sent, sendRest>>

\* uart_send_string is about to be called from the main loop, where every
\* earlier write to USART_TDR has been followed by a wait for TXE
InitSend ==
    /\ msTicks = BootTicks /\ t0 = BootTicks /\ nTicks = 0 /\ spare = 0
    /\ pc = "send_loop"
    /\ NoCall
    /\ c = 0 /\ brightness_str = <<>> /\ idx = 0 /\ start_time = Zero32
    /\ nConsumed = 0
    /\ temp_reading_active = 0
    /\ toggleParity = 0
    /\ arg = 0
    /\ TIM2_PSC = PWM_PSC
    /\ TIM2_ARR = PWM_ARR
    /\ TIM2_CCR1 = 0
    /\ RXNE = FALSE /\ USART_RDR = 0
    /\ TXE = TRUE /\ USART_TDR = CH_LF
    /\ ADC_DR = 0
    /\ TEMP30_CAL \in CalSet
    /\ temperature = 0
    /\ nReports = 0
    /\ lastTemp = Zero32
    /\ events = <<>>
    /\ Configured
    /\ plan = <<>>
    /\ snapshot = <<>>
    /\ bannerLines = BannerText
    /\ result = 0
    /\ str \in StrSet
    /\ si = 0
    /\ sent = <<>>
    /\ bytesLeft = 0

NextSend ==
    \/ SendChar
    \/ SendWait
    \/ TxEmpty

SpecSend ==
    /\ InitSend
    /\ [][NextSend]_vars
    /\ WF_vars(SendChar \/ SendWait)
    /\ WF_vars(TxEmpty)

----------------------------------------------------------------------------
(* main.c: the lines formatted into buffer *)

\* what sprintf returns: the characters it has written to the buffer, the
\* terminating NUL not counted
SprintfLen(line) == Len(line[1]) + Len(line[2]) + Len(line[3])

\* main.c:137, sprintf(buffer, "Temp: %ld degC\r\n", temperature)
SprintfTemp ==
    /\ pc = "temp_done"
    /\ result' = SprintfLen(LineTemp(temperature))
    /\ pc' = "fmt_done"
    /\ UNCHANGED <<rxVars, rxRest>>

\* main.c:122, sprintf(buffer, "\r\nLED brightness set to %d%%\r\n", brightness)
SprintfLed ==
    /\ pc = "fmt_led"
    /\ result' = SprintfLen(LineBrightness(arg))
    /\ pc' = "fmt_done"
    /\ UNCHANGED <<rxVars, rxRest>>

\* the confirmation line is about to be formatted, brightness being any
\* uint8_t
InitLed ==
    /\ Start("fmt_led", BootTicks, 0)
    /\ NoCall
    /\ start_time = Zero32
    /\ arg \in ByteInputs
    /\ ADC_DR = 0
    /\ TEMP30_CAL \in CalSet
    /\ events = <<>>
    /\ bytesLeft = 0

NextFormat ==
    \/ GetTemperature
    \/ SprintfTemp
    \/ SprintfLed

\* the two lines that main formats, on every input
SpecFormat == (InitTemp \/ InitLed) /\ [][NextFormat]_vars

\* set_led_brightness on every input
SpecPwm == InitPwm /\ [][SetLedBrightness]_vars

\* get_temperature on every input
SpecTemp == InitTemp /\ [][GetTemperature]_vars

----------------------------------------------------------------------------
(* Properties *)

\* ticks since start_time, as the loop condition computes them
Elapsed == Sub32(msTicks, start_time)

\* the digits of a value below 100, as they stand in a line
TwoDigits(v) == IF v < 10 THEN <<CH_0 + v>> ELSE <<CH_0 + v \div 10, CH_0 + (v % 10)>>

ConfirmationLine(v) == <<"\r\nLED brightness set to ", TwoDigits(v), "%\r\n">>

\* the command interpreter is not collecting digits
Idle == pc \in {"poll", "report"} \/ (pc = "delay" /\ ret = "poll")

\* C1: reporting starts disabled; each 'T' or 't' dispatched from Idle flips
\* temp_reading_active once and sends exactly one status line, the one of the
\* new state; reporting is enabled iff the number of such commands is odd; the
\* interpreter is Idle afterwards.
C1_Toggle ==
    /\ [](temp_reading_active = toggleParity)
    /\ [][(pc = "poll" /\ RXNE /\ USART_RDR \in {CH_T, CH_t} /\ ~RXNE') =>
            /\ temp_reading_active' = 1 - temp_reading_active
            /\ events' = <<Tx(IF temp_reading_active' = 1 THEN LINE_ON ELSE LINE_OFF)>>
            /\ Idle']_vars

\* two commands have been dispatched: reporting went on, and is off again
C1_Witness ==
    /\ pc = "report"
    /\ events = <<Tx(LINE_OFF)>>
    /\ temp_reading_active = 0
    /\ toggleParity = 0

\* the value of the digits in brightness_str, read left to right in base 10
DigitsValue ==
    IF idx = 1 THEN brightness_str[1] - CH_0
    ELSE 10 * (brightness_str[1] - CH_0) + (brightness_str[2] - CH_0)

\* C2: when digit collection ends with one or two digits, the value passed to
\* set_led_brightness and left in TIM2_CCR1 is the base-10 value of the
\* digits, at most 99, and the confirmation line carries that value.
C2_Brightness ==
    (pc = "report" /\ idx > 0) =>
        /\ idx \in {1, 2}
        /\ DigitsValue <= 99
        /\ TIM2_CCR1 = DigitsValue
        /\ events = <<SetLed(DigitsValue), Tx(ConfirmationLine(DigitsValue))>>

\* the digits '9', '0' have set the brightness to 90
C2_Witness ==
    /\ pc = "report"
    /\ brightness_str = <<CH_9, CH_0>>
    /\ TIM2_CCR1 = 90

\* C3: when digit collection ends with no digit (the first byte taken is not
\* a digit, or 5000 ms pass with no byte), "No digits received after L
\* command" is sent, set_led_brightness is not called and TIM2_CCR1 keeps its
\* value, no confirmation line is sent, and the interpreter is Idle again.
C3_NoDigits ==
    /\ [](pc = "finish" /\ idx = 0 =>
            \/ nConsumed = 1 /\ ~(c >= CH_0 /\ c <= CH_9)
            \/ nConsumed = 0 /\ ~LtSmall(Elapsed, COLLECT_TIMEOUT))
    /\ [][(pc = "finish" /\ idx = 0 /\ pc' # "finish") =>
            /\ events' = <<Tx(LINE_NO_DIGITS)>>
            /\ TIM2_CCR1' = TIM2_CCR1
            /\ Idle']_vars

\* a session has timed out with no byte, and the brightness an earlier
\* command had set is still there
C3_Witness ==
    /\ pc = "report"
    /\ events = <<Tx(LINE_NO_DIGITS)>>
    /\ nConsumed = 0
    /\ TIM2_CCR1 = 9

\* C4: a session ends at the first of: two digits stored, a non-digit taken,
\* 5000 ms elapsed; so idx never exceeds 2, at most two digits are stored,
\* and the loop takes no byte after the second digit.
C4_Session ==
    /\ idx <= 2
    /\ Len(brightness_str) = idx
    /\ nConsumed <= 2
    /\ nConsumed \in {idx, idx + 1}
    /\ pc = "echo_wait" => idx < 2 /\ nConsumed = idx + 1
    /\ pc = "finish" =>
          \/ idx = 2
          \/ nConsumed = idx + 1 /\ ~(c >= CH_0 /\ c <= CH_9)
          \/ ~LtSmall(Elapsed, COLLECT_TIMEOUT)

\* the loop has ended on the second digit, before the 5000 ms, and has left
\* the byte that came after it in the receiver
C4_Witness ==
    /\ pc = "finish"
    /\ idx = 2
    /\ nConsumed = 2
    /\ RXNE
    /\ USART_RDR = CH_9
    /\ LtSmall(Elapsed, COLLECT_TIMEOUT)

\* C5 as stated: for 'L', '9', '9' the brightness is set and confirmed once
\* the 5000 ms window since the command has elapsed.
C5_AfterWindow ==
    (pc = "report" /\ brightness_str = <<CH_9, CH_9>>) =>
        ~LtSmall(Elapsed, COLLECT_TIMEOUT)

\* C5 amended: for 'L', '9', '9' the loop ends on the second digit: the
\* brightness is set to 99 and "LED brightness set to 99%" sent once the two
\* 5 ms delays that follow the digits have passed, with no third byte taken.
C5_AfterSecondDigit ==
    (pc \in {"finish", "report"} /\ brightness_str = <<CH_9, CH_9>>) =>
        /\ nConsumed = 2
        /\ ~LtSmall(Elapsed, 2 * POST_DIGIT_DELAY)
        /\ pc = "report" =>
              /\ TIM2_CCR1 = 99
              /\ events = <<SetLed(99), Tx(ConfirmationLine(99))>>

\* 99 is set and confirmed 10 ms after the command
C5_Witness ==
    /\ pc = "report"
    /\ brightness_str = <<CH_9, CH_9>>
    /\ TIM2_CCR1 = 99
    /\ Elapsed = U32(0, 2 * POST_DIGIT_DELAY)

\* C6: digit collection ends by itself: for every input and every value of
\* msTicks at the start, the counter wrapping in the wait included, the loop
\* exits and the interpreter leaves the session, given the tick keeps firing
\* and TXE sets after each echo; with no input it does not exit before
\* msTicks - start_time reaches 5000, and the step it takes once 5000 is
\* reached is the exit, taking no byte.
C6_SelfTerminating ==
    /\ [](pc = "finish" /\ nConsumed = 0 => ~LtSmall(Elapsed, COLLECT_TIMEOUT))
    /\ [][(pc = "collect" /\ ~LtSmall(Elapsed, COLLECT_TIMEOUT) /\ pc' # "collect") =>
            pc' = "finish" /\ nConsumed' = nConsumed]_vars
    /\ <>(pc = "report")

\* a session with no byte has timed out while msTicks wrapped
C6_Witness ==
    /\ pc = "report"
    /\ events = <<Tx(LINE_NO_DIGITS)>>
    /\ nConsumed = 0
    /\ t0[1] = W16 - 1
    /\ msTicks[1] = 0
    /\ nTicks = COLLECT_TIMEOUT

\* C7: delay_ms(ms) called at t0 returns only once msTicks - t0 >= ms holds,
\* also when msTicks wraps in the wait; with ms = 0 it can return at once; and
\* while the tick keeps firing it returns.
C7_Delay ==
    /\ [][(pc = "delay" /\ pc' = "done") => ~LtSmall(Sub32(msTicks, t0), ms)]_vars
    /\ [](pc = "delay" /\ ms = 0 => ENABLED DelayLoop)
    /\ <>(pc = "done")

\* delay_ms(1000) has returned after 1000 ticks that took msTicks through 0
C7_Witness ==
    /\ pc = "done"
    /\ t0 = U32(W16 - 1, W16 - 3)
    /\ nTicks = REPORT_DELAY
    /\ msTicks = U32(0, REPORT_DELAY - 3)

\* C8: only SysTick_Handler writes msTicks, adding 1 modulo 2^32: after n
\* ticks from t0 it reads (t0 + n) mod 2^32, across the wrap and wherever the
\* ticks fall between the steps of the main thread.
C8_Counter ==
    LET lo == t0[2] + nTicks
    IN  msTicks = <<(t0[1] + lo \div W16) % W16, lo % W16>>

\* msTicks has wrapped and a digit-collection session is under way
C8_Witness ==
    /\ pc = "echo_wait"
    /\ t0[1] = W16 - 1
    /\ msTicks[1] = 0
    /\ spare > 0

\* C9: for every 8-bit v, set_led_brightness(v) leaves TIM2_CCR1 = v when
\* v <= 99 and 99 when v > 99; called again with the value it wrote it
\* changes nothing; and it writes no other register.
C9_Clamp ==
    /\ [](pc \in {"pwm_again", "pwm_done"} => TIM2_CCR1 = (IF arg <= 99 THEN arg ELSE 99))
    /\ [][/\ pc = "pwm_again" => TIM2_CCR1' = TIM2_CCR1
          /\ <<TIM2_PSC, TIM2_ARR, USART_TDR, USART_RDR, ADC_DR>>' =
             <<TIM2_PSC, TIM2_ARR, USART_TDR, USART_RDR, ADC_DR>>]_vars

\* 200 was clamped to 99, and the second call has left 99
C9_Witness ==
    /\ pc = "pwm_done"
    /\ arg = 200
    /\ TIM2_CCR1 = 99

\* division truncating toward zero
TruncDiv(a, d) == IF a >= 0 THEN a \div d ELSE -((-a) \div d)

\* the formula of the temperature in signed integer arithmetic
SignedTemperature(raw, cal30) ==
    TruncDiv((TruncDiv(raw * 3300, 3300) - cal30) * 1000, 5336) + 30

\* C10: for every 12-bit raw sample and 16-bit cal30, get_temperature returns
\* ((raw * 3300 / 3300) - cal30) * 1000 / 5336 + 30 in signed arithmetic with
\* divisions truncating toward zero: 30 for raw = 0 and cal30 = 0, and less
\* than 30 when raw < cal30.
C10_Signed ==
    pc = "temp_done" =>
        /\ temperature = SignedTemperature(ADC_DR, TEMP30_CAL)
        /\ ADC_DR < TEMP30_CAL => temperature < 30

\* ticks since the latest Temp line
SinceTemp == Sub32(msTicks, lastTemp)

\* C11: while temperature reporting is enabled a Temp line is sent once per
\* second whatever arrives on the serial line: the handling of command bytes,
\* an L command waiting for its digits included, never leaves the latest Temp
\* line more than a second cadence (here: two periods of 1000 ms) behind.
C11_Cadence ==
    (temp_reading_active # 0 /\ pc # "report") =>
        LtSmall(SinceTemp, 2 * REPORT_DELAY)

\* C12: a byte dispatched from Idle that is none of 'T', 't', 'L', 'l' is
\* consumed and ignored: nothing is transmitted for it, and
\* temp_reading_active and TIM2_CCR1 keep their values.
C12_Ignored ==
    [][(pc = "poll" /\ RXNE /\ USART_RDR \notin {CH_T, CH_t, CH_L, CH_l} /\ pc' # "poll") =>
          /\ ~RXNE'
          /\ events' = <<>>
          /\ <<TXE, USART_TDR>>' = <<TXE, USART_TDR>>
          /\ temp_reading_active' = temp_reading_active
          /\ TIM2_CCR1' = TIM2_CCR1
          /\ pc' = "report"]_vars

\* the one byte that has arrived, a digit or ':', has been taken from the
\* receiver and nothing was sent
C12_Witness ==
    /\ pc = "report"
    /\ events = <<>>
    /\ ~RXNE
    /\ bytesLeft = MaxBytes - 1
    /\ nTicks = 0
    /\ toggleParity = 0

\* HSI is stable, selected, and shown as the system clock by the status bits
ClockReady ==
    /\ RCC_CR_HSIRDY \in RCC_CR
    /\ RCC_CFGR \cap {0, 1, 2, 3} = {}

\* the 1 ms tick runs and interrupts
TickRunning == {0, 1} \subseteq SYST_CSR /\ SYST_RVR = 7999

\* the converter is enabled and converting in continuous mode
AdcConverting == {0, 2} \subseteq ADC_CR /\ 31 \notin ADC_CR /\ 13 \in ADC_CFGR1

\* timer 2 counts with the prescaler and period of the PWM
PwmRunning == 0 \in TIM2_CR1 /\ TIM2_PSC = 799 /\ TIM2_ARR = 99

\* the serial peripheral, its transmitter and its receiver are enabled
SerialOn == {0, 2, 3} \subseteq USART_CR1 /\ USART_BRR = 833

\* the three lines of the banner
ExpectedBanner ==
    << <<"STM32F0xx Demo\r\n", <<>>, "">>,
       <<"T - to toggle temperature reading\r\n", <<>>, "">>,
       <<"L<0-99> - to set LED brightness\r\n", <<>>, "">> >>

\* C13: startup runs in this order, each step to its end, before the main
\* loop: clk_conf (which returns only once HSIRDY and the switch status have
\* been seen), systick_init, adc_conf, pwm_led_init, uart_conf, the emptying
\* of the receiver until no byte is there, a wait of 50 ms, and the three
\* banner lines, once each, before any command byte is dispatched; nothing
\* that depends on the clock is configured before the clock is ready, and no
\* delay_ms is entered before the tick interrupt is enabled.
C13_Startup ==
    /\ [](/\ SYST_CSR # {} => ClockReady
          /\ RCC_APB2ENR # {} => TickRunning
          /\ (TIM2_CR1 # {} \/ TIM2_CCMR1 # {} \/ TIM2_PSC # 0 \/ 0 \in RCC_APB1ENR)
                => AdcConverting
          /\ (17 \in RCC_APB1ENR \/ USART_CR1 # {} \/ USART_BRR # 0) => PwmRunning
          /\ pc = "drain" => SerialOn
          /\ pc = "delay" => TickRunning
          /\ (pc = "delay" /\ ret = "banner") => SerialOn /\ nTicks >= 120
          /\ bannerLines = SubSeq(ExpectedBanner, 1, Len(bannerLines))
          /\ bannerLines # <<>> => nTicks >= 170
          /\ pc \in {"poll", "report", "collect"} => bannerLines = ExpectedBanner
          /\ pc \notin {"report", "collect"} =>
                temp_reading_active = 0 /\ idx = 0 /\ events \in {<<>>} \cup
                    {<<Tx(ExpectedBanner[k])>> : k \in 1 .. 3})
    /\ [][/\ (pc = "clk_wait_sws" /\ pc' # pc) => ClockReady
          /\ (pc = "drain" /\ pc' # pc) => ~RXNE /\ pc' = "delay" /\ ms' = 50
          /\ Len(bannerLines') > Len(bannerLines) =>
                events' = <<Tx(ExpectedBanner[Len(bannerLines')])>>]_vars

\* the main loop is entered with everything configured and the banner sent,
\* and a byte that came in during the banner waits to be dispatched
C13_Witness ==
    /\ pc = "poll"
    /\ bannerLines = ExpectedBanner
    /\ ClockReady /\ TickRunning /\ AdcConverting /\ PwmRunning /\ SerialOn
    /\ RXNE
    /\ bytesLeft = MaxBytes - 2

----------------------------------------------------------------------------
(* C14: the configure functions called again *)

----------------------------------------------------------------------------
(* C15: the receive functions *)

\* C15: uart_receive_char returns in one step without waiting: with the
\* receive flag set it returns the byte of the receive register and the flag
\* is clear afterwards; with the flag clear it returns 0 and changes
\* nothing. uart_data_available returns 1 when the flag is set and 0 when
\* it is clear, and leaves the flag and the register as they were. Both
\* calls return.
C15_NonBlocking ==
    /\ [][(pc = "rx_call" =>
             /\ pc' = "done"
             /\ UNCHANGED rxRest
             /\ IF RXNE THEN result' = USART_RDR /\ ~RXNE'
                        ELSE result' = 0 /\ UNCHANGED rxVars)
          /\
          (pc = "avail_call" =>
             /\ pc' = "done"
             /\ UNCHANGED <<rxVars, rxRest>>
             /\ result' = 1 <=> RXNE
             /\ result' = 0 <=> ~RXNE)]_vars
    /\ <>(pc = "done")

\* uart_receive_char has returned the byte 200 and consumed it
C15_Witness == pc = "done" /\ result = 200 /\ ~RXNE

----------------------------------------------------------------------------
(* C16: the PWM channel *)

\* C16 as stated: in the main loop, whatever bytes arrive, the compare
\* register is at most the auto-reload value minus one.
C16_BelowPeriod == TIM2_CCR1 <= TIM2_ARR - 1

\* C16: in the main loop, whatever bytes arrive, the compare register lies
\* in [0, 99], the auto-reload value 99 included, and the prescaler and the
\* auto-reload register keep the values 799 and 99 written by pwm_led_init:
\* no step writes them.
C16_Duty ==
    /\ [](TIM2_CCR1 \in 0 .. TIM2_ARR /\ TIM2_ARR = 99 /\ TIM2_PSC = 799)
    /\ [][UNCHANGED timerVars]_vars

\* an L command has set the compare register to the auto-reload value
C16_Witness == TIM2_CCR1 = TIM2_ARR /\ events # <<>> /\ events[1] = SetLed(99)

----------------------------------------------------------------------------
(* C17: the order of adc_conf *)

\* the bit is set by the step
Raised(bit, reg, regNext) == bit \notin reg /\ bit \in regNext

\* ticks since delay_ms was entered
Waited == Sub32(msTicks, start_ticks)

\* C17: in adc_conf ADDIS is set only when ADEN was read set, and the wait
\* that follows is left only with ADEN clear; ADCAL is set only with ADEN
\* clear, and the wait that follows is left only with ADCAL clear; ADEN is
\* set only after the 100 ms delay has elapsed and with continuous mode and
\* channel 16 already selected; the 20 ms delay is entered only with ADEN
\* read set, and ADSTART is set only with ADEN set and after that delay has
\* elapsed. The converter is never calibrating while enabled and never
\* converting while disabled.
C17_Order ==
    /\ [](ADC_CR_ADCAL \in ADC_CR => ADC_CR_ADEN \notin ADC_CR)
    /\ [](ADC_CR_ADSTART \in ADC_CR => ADC_CR_ADEN \in ADC_CR)
    /\ [][/\ Raised(ADC_CR_ADDIS, ADC_CR, ADC_CR') =>
                pc = "adc_conf" /\ ADC_CR_ADEN \in ADC_CR /\ pc' = "adc_wait_off"
          /\ (pc = "adc_wait_off" /\ pc' # pc) =>
                ADC_CR_ADEN \notin ADC_CR /\ pc' = "adc_calibrate"
          /\ Raised(ADC_CR_ADCAL, ADC_CR, ADC_CR') =>
                pc = "adc_calibrate" /\ ADC_CR_ADEN \notin ADC_CR /\ pc' = "adc_wait_cal"
          /\ (pc = "adc_wait_cal" /\ pc' # pc) =>
                ADC_CR_ADCAL \notin ADC_CR /\ pc' = "delay" /\ ms' = 100
                /\ ret' = "adc_enable"
          /\ (pc' = "adc_enable" /\ pc' # pc) =>
                pc = "delay" /\ ms = 100 /\ ~LtSmall(Waited, 100)
          /\ Raised(ADC_CR_ADEN, ADC_CR, ADC_CR') =>
                /\ pc = "adc_aden"
                /\ ADC_CFGR1_CONT \in ADC_CFGR1
                /\ 16 \in ADC_CHSELR
                /\ pc' = "adc_wait_on"
          /\ (pc' = "adc_aden" /\ pc' # pc) => pc = "adc_channel"
          /\ (pc' = "adc_channel" /\ pc' # pc) => pc = "adc_enable"
          /\ (pc = "adc_wait_on" /\ pc' # pc) =>
                ADC_CR_ADEN \in ADC_CR /\ pc' = "delay" /\ ms' = 20 /\ ret' = "adc_start"
          /\ (pc' = "adc_start" /\ pc' # pc) =>
                pc = "delay" /\ ms = 20 /\ ~LtSmall(Waited, 20)
          /\ Raised(ADC_CR_ADSTART, ADC_CR, ADC_CR') =>
                pc = "adc_start" /\ ADC_CR_ADEN \in ADC_CR /\ pc' = "return"]_vars

\* adc_conf returns for the second time: the converter was found converting,
\* switched off, calibrated, enabled and started again
C17_Witness ==
    /\ pc = "return"
    /\ plan = <<"adc_conf", "pwm_led_init", "pwm_led_init", "uart_conf", "uart_conf">>
    /\ AdcConverting

----------------------------------------------------------------------------
(* C18: the order of uart_conf *)

\* the bits of USART_CR1 that select oversampling, word length and parity
FrameBits == {USART_CR1_OVER8, USART_CR1_M0, USART_CR1_M1, USART_CR1_PCE}

\* oversampling by 16, 8 data bits, no parity, 1 stop bit
Frame8N1 == USART_CR1 \cap FrameBits = {} /\ USART_CR2 \cap Shl(3, 12) = {}

\* C18: a step that changes the oversampling, word-length or parity bits,
\* the stop bits or USART_BRR is taken with UE clear; TE is set only after
\* the divisor and the frame have been written and with UE still clear, RE
\* only after TE, UE only after both; the writes of uart_conf follow one
\* another in that order; and when uart_conf returns USART_BRR is 0x341, the
\* frame is 8 data bits, no parity, 1 stop bit, and TE, RE and UE are set.
C18_Order ==
    /\ [](pc = "return" /\ Head(plan) = "uart_conf" =>
            /\ USART_BRR = 833
            /\ Frame8N1
            /\ {USART_CR1_TE, USART_CR1_RE, USART_CR1_UE} \subseteq USART_CR1)
    /\ [][/\ (\/ USART_BRR' # USART_BRR
              \/ USART_CR1' \cap FrameBits # USART_CR1 \cap FrameBits
              \/ USART_CR2' # USART_CR2) =>
                USART_CR1_UE \notin USART_CR1
          /\ Raised(USART_CR1_TE, USART_CR1, USART_CR1') =>
                /\ pc = "uart_te"
                /\ USART_BRR = 833
                /\ Frame8N1
                /\ USART_CR1_UE \notin USART_CR1
          /\ Raised(USART_CR1_RE, USART_CR1, USART_CR1') =>
                pc = "uart_re" /\ USART_CR1_TE \in USART_CR1
          /\ Raised(USART_CR1_UE, USART_CR1, USART_CR1') =>
                /\ pc = "uart_ue"
                /\ {USART_CR1_TE, USART_CR1_RE} \subseteq USART_CR1
                /\ USART_BRR = 833
                /\ Frame8N1
          /\ (pc' = "uart_frame" /\ pc' # pc) =>
                pc = "uart_disable" /\ USART_CR1_UE \notin USART_CR1'
          /\ (pc' = "uart_baud" /\ pc' # pc) => pc = "uart_frame"
          /\ (pc' = "uart_te" /\ pc' # pc) => pc = "uart_baud"
          /\ (pc' = "uart_re" /\ pc' # pc) => pc = "uart_te"
          /\ (pc' = "uart_ue" /\ pc' # pc) => pc = "uart_re"
          /\ (pc = "uart_ue" /\ pc' # pc) => USART_CR1_UE \in USART_CR1']_vars

\* uart_conf returns for the first time
C18_Witness ==
    /\ pc = "return"
    /\ plan = <<"uart_conf", "uart_conf">>
    /\ USART_BRR = 833
    /\ USART_CR1 = {USART_CR1_UE, USART_CR1_RE, USART_CR1_TE}

----------------------------------------------------------------------------
(* C19: uart_send_string *)

\* the position of the first NUL in the memory
NulAt(mem) == CHOOSE k \in 1 .. Len(mem) : mem[k] = 0 /\ \A j \in 1 .. k - 1 : mem[j] # 0

\* the characters of the string: the memory up to its first NUL
Text(mem) == SubSeq(mem, 1, NulAt(mem) - 1)

\* C19: the bytes uart_send_string has handed to the transmitter are at
\* every moment the first characters of its argument, in order; a byte is
\* written to USART_TDR only with TXE set, that is after the wait that
\* followed the previous byte has ended, and the write clears TXE; when the
\* call returns exactly the characters before the NUL have been sent, each
\* once, and TXE is set again; for an empty string the transmitter is left
\* untouched; and the call returns.
C19_InOrder ==
    /\ [](/\ Len(sent) <= Len(Text(str))
          /\ sent = SubSeq(Text(str), 1, Len(sent))
          /\ pc = "send_loop" => Len(sent) = si
          /\ pc = "send_wait" => Len(sent) = si + 1 /\ USART_TDR = str[si + 1])
    /\ [](pc = "done" => sent = Text(str) /\ TXE)
    /\ [][/\ sent' # sent => TXE /\ ~TXE' /\ sent' = Append(sent, USART_TDR')
          /\ USART_TDR' # USART_TDR => sent' # sent
          /\ str[1] = 0 => UNCHANGED txVars]_vars
    /\ <>(pc = "done")

\* the call has returned after sending the one character before the NUL, and
\* not the character behind it
C19_Witness ==
    /\ pc = "done"
    /\ str[1] = CH_T /\ str[2] = 0 /\ str[3] = CH_L
    /\ sent = <<CH_T>>
    /\ TXE

----------------------------------------------------------------------------
(* C20: the temperature report *)

\* C20: the report step of a loop iteration with reporting enabled reads
\* the temperature once, sends one Temp line with it and enters
\* delay_ms(1000), which returns to the command dispatch; a Temp line is sent
\* by no other step, and never fewer than 1000 ticks after the previous one;
\* while the delay runs no received byte is taken and no command takes
\* effect; with reporting disabled the step reads nothing, sends nothing and
\* goes back to the command dispatch without a delay.
C20_Report ==
    [][/\ (pc = "report" /\ pc' # pc /\ temp_reading_active # 0) =>
             /\ temperature' = get_temperature(ADC_DR', TEMP30_CAL)
             /\ events' = <<Tx(LineTemp(temperature'))>>
             /\ nReports' = nReports + 1
             /\ pc' = "delay" /\ ms' = 1000 /\ ret' = "poll"
             /\ start_ticks' = msTicks
             /\ nReports > 0 => ~LtSmall(SinceTemp, 1000)
       /\ (pc = "report" /\ pc' # pc /\ temp_reading_active = 0) =>
             /\ pc' = "poll"
             /\ events' = <<>>
             /\ UNCHANGED <<ADC_DR, temperature, nReports, txVars, delayVars>>
       /\ nReports' # nReports => pc = "report"
       /\ (pc = "delay" /\ ret = "poll") =>
             /\ RXNE => UNCHANGED rxVars
             /\ UNCHANGED <<flagVars, TIM2_CCR1, nConsumed, nReports>>
             /\ pc' # pc => pc' = "poll" /\ ~LtSmall(Sub32(msTicks, start_ticks), 1000)
      ]_vars

\* the second Temp line has been sent, 1000 ticks or more after the first,
\* and its delay is running
C20_Witness ==
    /\ pc = "delay"
    /\ ret = "poll"
    /\ nReports = 2
    /\ ~LtSmall(Sub32(lastTemp, BootTicks), 1000)

----------------------------------------------------------------------------
(* C21: the transmit register *)

\* the step of the main thread calls uart_send_string or writes an echo to
\* USART_TDR
WritesTdr ==
    /\ pc' # pc
    /\ \E k \in 1 .. Len(events') : events'[k][1] \in {"tx", "echo"}

\* C21: in the main loop every call of uart_send_string and every echo of
\* a received byte finds TXE set, so that no write to USART_TDR replaces a
\* byte that has not been moved out; the echo clears TXE and the loop goes on
\* only when TXE is set again, and uart_send_string returns with TXE set.
C21_NoOverwrite ==
    [][/\ WritesTdr => TXE
       /\ USART_TDR' # USART_TDR => TXE /\ WritesTdr
       /\ (pc = "echo_wait" /\ pc' # pc) => TXE
       /\ (WritesTdr /\ pc' # "echo_wait") => TXE'
      ]_vars

\* the second digit of an L command has been written to USART_TDR as an
\* echo, after the wait that followed the echo of the first
C21_Witness ==
    /\ pc = "echo_wait"
    /\ ~TXE
    /\ nConsumed = 2
    /\ USART_TDR = CH_9
    /\ events = <<Echo(CH_9)>>

----------------------------------------------------------------------------
(* C22: the bytes of a digit-collection session *)

\* the step of the main thread writes an echo
Echoes == pc' # pc /\ \E k \in 1 .. Len(events') : events'[k][1] = "echo"

\* C22: a byte taken by the digit-collection loop is written once to
\* USART_TDR as an echo, in the step that takes it, and no echo is written
\* otherwise; from there to the end of the L branch the reporting flag is
\* not toggled and no new session is started, whatever the byte, a
\* terminating T, t, L or l included; once two digits are stored the loop
\* takes no further byte, and a byte that is in the receive register then
\* stays there through the end of the branch, the report and its delay,
\* until the command dispatch takes it as it takes any byte: T or t toggles
\* the flag, L or l starts a session.
C22_Echoed ==
    [][/\ nConsumed' > nConsumed =>
             /\ pc = "collect" /\ RXNE /\ idx < 2
             /\ nConsumed' = nConsumed + 1
             /\ events' = <<Echo(USART_RDR)>>
             /\ USART_TDR' = USART_RDR
             /\ c' = USART_RDR
             /\ ~RXNE'
             /\ pc' = "echo_wait"
             /\ UNCHANGED <<flagVars, start_time, TIM2_CCR1>>
       /\ Echoes => nConsumed' = nConsumed + 1
       /\ (pc = "echo_wait" /\ pc' # pc) =>
             /\ pc' = IF IsDigit(c) THEN "delay" ELSE "finish"
             /\ events' = <<>>
             /\ UNCHANGED <<flagVars, start_time, txVars>>
       /\ (pc = "finish" /\ pc' # pc) =>
             /\ pc' = "report"
             /\ UNCHANGED <<flagVars, rxVars>>
             /\ \A k \in 1 .. Len(events') :
                    events'[k] \notin {Tx(LINE_PROMPT), Tx(StatusLine(0)), Tx(StatusLine(1))}
       /\ (pc = "collect" /\ idx = 2) =>
             /\ nConsumed' = nConsumed
             /\ RXNE => UNCHANGED rxVars
       /\ (pc \in {"finish", "report", "delay"} /\ RXNE) => UNCHANGED rxVars
       /\ (pc = "poll" /\ pc' # pc /\ RXNE) =>
             /\ ~RXNE'
             /\ IsToggleCmd(USART_RDR) =>
                    temp_reading_active' = Toggle(temp_reading_active)
             /\ IsLedCmd(USART_RDR) =>
                    pc' = "collect" /\ events' = <<Tx(LINE_PROMPT)>>
      ]_vars

\* after the digits 9 and 9 a T arrived: the session set the brightness to
\* 99 without taking the T, and the command dispatch has taken it and
\* switched reporting on
C22_Witness ==
    /\ pc = "report"
    /\ TIM2_CCR1 = 99
    /\ temp_reading_active = 1
    /\ events = <<Tx(StatusLine(1))>>
    /\ bytesLeft = 0
    /\ lastTemp = Zero32

----------------------------------------------------------------------------
(* C23: bytes that arrive while the main loop is blocked *)

\* C23 as stated, for the 1000 ms delay of the temperature report: a byte
\* that arrives while the main loop is in that delay is not lost, that is, it
\* finds the receive register free and is held there for the command
\* dispatch.
C23_NoLoss ==
    [][(/\ bytesLeft' < bytesLeft
        /\ pc = "delay" /\ ret = "poll"
        /\ ~LtSmall(Sub32(msTicks, start_ticks), 2)) =>
            ~RXNE /\ RXNE']_vars

----------------------------------------------------------------------------
(* C24: the message buffer *)

\* C24: the confirmation line formatted for any brightness (0..99 and
\* every other uint8_t) and the Temp line formatted for the value that
\* get_temperature returns on any 12-bit sample and any calibration value
\* have at most 31 characters, so that with the terminating NUL they fit the
\* 32 bytes of buffer.
C24_Fits == pc = "fmt_done" => result + 1 <= BUFFER_SIZE

\* the Temp line of the largest value get_temperature returns here, six
\* digits long, has been formatted: 19 characters
C24_Witness ==
    /\ pc = "fmt_done"
    /\ ADC_DR = 0
    /\ TEMP30_CAL = 65535
    /\ temperature >= 100000
    /\ result = 19

====
